---- MODULE Spec2Model ----
(***************************************************************************)
(* Model of cli/pkg/cli/list/list.go: the experiment listing.              *)
(*                                                                         *)
(*   - GetValue            the field resolver of a ListExperiment          *)
(*   - Experiments         the listing pipeline: createListExperiments,    *)
(*                         sort by the caller's sorter, render             *)
(*   - outputTable, outputQuiet, outputJSON   the three renderers          *)
(*   - getParamsToDisplay, getMetricsToDisplay   the column selection      *)
(*                                                                         *)
(* A line written to a tabwriter is modelled as the sequence of the cells  *)
(* that were written to it, in order.  The header's cells are separated by *)
(* tabs; every cell of a data row is followed by a tab.                    *)
(***************************************************************************)
EXTENDS Integers, Sequences, FiniteSets, TLC

VARIABLES
    stored,       \* the experiments held by the storage (the data set), by index
    format,       \* Experiments' format argument
    allParams,    \* Experiments' allParams argument
    sorter,       \* Experiments' sorter argument: [key, desc]
    pc,           \* position in Experiments, or in the function a specification applies
    experiments,  \* what proj.Experiments() returned, in retrieval order
    idx,          \* createListExperiments' loop position in experiments
    ret,          \* createListExperiments' ret, then Experiments' listExperiments
    stdout,       \* the lines written to os.Stdout
    err,          \* what the call returned: "none" while running, "nil", an error, "panic"
    ran,          \* the stages of the current invocation that have run
    prev,         \* the record order the previous invocation rendered, <<"none">> before
    name,         \* GetValue's argument
    val,          \* GetValue's result
    cols,         \* getParamsToDisplay's result
    prevCols      \* getParamsToDisplay's result on the record sequence before a permutation

vars == <<stored, format, allParams, sorter, pc, experiments, idx, ret, stdout,
          err, ran, prev, name, val, cols, prevCols>>

----------------------------------------------------------------------------
\* Bounds of the model.

\* the largest number of experiments in the storage / records handed to a function
MaxExps == 2

\* the creation times an experiment may have (two experiments may share one)
CreatedTimes == {1, 2}

----------------------------------------------------------------------------
\* Program constants.

FormatJSON == 0
FormatTable == 1
FormatQuiet == 2

valueMaxLength == 20
valueTruncate == 5

\* the length of the identifier prefix shown in the table: exp.ID[:7]
IDPrefixLen == 7

----------------------------------------------------------------------------
\* Small helpers.

Digit == <<"0", "1", "2", "3", "4", "5", "6", "7", "8", "9">>

RECURSIVE Itoa(_)
Itoa(n) == IF n < 10 THEN Digit[n + 1] ELSE Itoa(n \div 10) \o Digit[(n % 10) + 1]

Min(a, b) == IF a < b THEN a ELSE b

Range(s) == {s[i] : i \in DOMAIN s}

\* every arrangement of the elements of sequence s
Perms(s) ==
    {[i \in 1..Len(s) |-> s[p[i]]] :
        p \in {q \in [1..Len(s) -> 1..Len(s)] : \A i, j \in 1..Len(s) : i # j => q[i] # q[j]}}

\* the field and column names of the model, in lexicographic order
NameOrder == <<"acc", "cfg", "command", "host", "loss", "lr", "started", "status", "step", "user">>

Names == Range(NameOrder)

UpperOf ==
    [acc |-> "ACC", cfg |-> "CFG", command |-> "COMMAND", host |-> "HOST", loss |-> "LOSS",
     lr |-> "LR", started |-> "STARTED", status |-> "STATUS", step |-> "STEP", user |-> "USER"]

----------------------------------------------------------------------------
\* param.Value: a type tag and a payload (a number for int and float, text otherwise).

TypeObject == "object"

IntValue(n) == [type |-> "int", v |-> n]
FloatValue(n) == [type |-> "float", v |-> n]
StringValue(s) == [type |-> "string", v |-> s]
ObjectValue(s) == [type |-> TypeObject, v |-> s]

\* a nil *param.Value
NilValue == [type |-> "nil"]

\* Value.NotEqual: [err, ne]; values of different types cannot be compared
NotEqual(a, b) ==
    IF a.type # b.type
    THEN [err |-> TRUE, ne |-> FALSE]
    ELSE [err |-> FALSE, ne |-> a.v # b.v]

\* the natural string form of a value
NaturalString(x) == IF x.type \in {"int", "float"} THEN Itoa(x.v) ELSE x.v

\* Value.ShortString(maxLength, truncate)
ShortString(x, maxLength, truncate) ==
    LET s == NaturalString(x)
    IN  IF Len(s) > maxLength THEN SubSeq(s, 1, truncate) \o "..." ELSE s

\* slices.StringKeys: the keys of a set, sorted
StringKeys(S) == SelectSeq(NameOrder, LAMBDA k : k \in S)

\* console.FormatTime: the creation time as a human-readable relative time
FormatTime(t) == Itoa(t) \o " seconds ago"

----------------------------------------------------------------------------
\* project.Checkpoint and ListExperiment.

\* a nil *project.Checkpoint
NilCheckpoint == [nil |-> TRUE]

Checkpoint(shortID, step, metrics, primary) ==
    [nil |-> FALSE, shortID |-> shortID, step |-> step, metrics |-> metrics,
     primaryMetric |-> primary]

\* the keys of a map (params, metrics)
Keys(m) == DOMAIN m

EmptyMap == <<>>

\* GetValue with the params looked up before the virtual fields and the metrics
GetValueParamsFirst(exp, n) ==
    IF n \in Keys(exp.params) THEN exp.params[n]
    ELSE IF n = "started" THEN FloatValue(exp.created)
    ELSE IF n = "step" THEN
        (IF exp.latestCheckpoint # NilCheckpoint
         THEN IntValue(exp.latestCheckpoint.step)
         ELSE IntValue(0))
    ELSE IF n = "user" THEN StringValue(exp.user)
    ELSE IF n = "host" THEN StringValue(exp.host)
    ELSE IF n = "command" THEN StringValue(exp.command)
    ELSE IF n = "status" THEN
        (IF exp.running THEN StringValue("running") ELSE StringValue("stopped"))
    ELSE IF exp.bestCheckpoint # NilCheckpoint /\ n \in Keys(exp.bestCheckpoint.metrics)
        THEN exp.bestCheckpoint.metrics[n]
    ELSE NilValue

\* func (exp *ListExperiment) GetValue(name string) *param.Value
GetValue(exp, n) ==
    IF n = "started" THEN FloatValue(exp.created)
    ELSE IF n = "step" THEN
        (IF exp.latestCheckpoint # NilCheckpoint
         THEN IntValue(exp.latestCheckpoint.step)
         ELSE IntValue(0))
    ELSE IF n = "user" THEN StringValue(exp.user)
    ELSE IF n = "host" THEN StringValue(exp.host)
    ELSE IF n = "command" THEN StringValue(exp.command)
    ELSE IF n = "status" THEN
        (IF exp.running THEN StringValue("running") ELSE StringValue("stopped"))
    ELSE IF exp.bestCheckpoint # NilCheckpoint /\ n \in Keys(exp.bestCheckpoint.metrics)
        THEN exp.bestCheckpoint.metrics[n]
    ELSE IF n \in Keys(exp.params) THEN exp.params[n]
    ELSE NilValue

----------------------------------------------------------------------------
\* Column selection.

\* changedParams with the result of NotEqual ignored: a key counts as changed as soon
\* as a second record holds it
RECURSIVE changedParamsAnyRepeat(_, _, _)
changedParamsAnyRepeat(exps, paramValues, expHeadingSet) ==
    IF exps = <<>> THEN expHeadingSet
    ELSE
        LET params == Head(exps).params
            shown == {k \in Keys(params) : params[k].type # TypeObject}
            seen == {k \in shown : k \in Keys(paramValues)}
            paramValues2 == [k \in Keys(paramValues) \cup shown |->
                                IF k \in Keys(paramValues) THEN paramValues[k] ELSE params[k]]
        IN  changedParamsAnyRepeat(Tail(exps), paramValues2, expHeadingSet \cup seen)

\* getParamsToDisplay, onlyChangedParams branch: the loop over experiments.  For one
\* experiment the keys of its Params are handled independently of each other (each key
\* reads and writes only its own entry of paramValues and of expHeadingSet), so the
\* iteration order of the map does not matter and the keys are handled together.
RECURSIVE changedParams(_, _, _)
changedParams(exps, paramValues, expHeadingSet) ==
    IF exps = <<>> THEN expHeadingSet
    ELSE
        LET params == Head(exps).params
            shown == {k \in Keys(params) : params[k].type # TypeObject}
            seen == {k \in shown : k \in Keys(paramValues)}
            differ == {k \in seen : LET r == NotEqual(paramValues[k], params[k])
                                    IN  ~r.err /\ r.ne}
            paramValues2 == [k \in Keys(paramValues) \cup shown |->
                                IF k \in Keys(paramValues) THEN paramValues[k] ELSE params[k]]
        IN  changedParams(Tail(exps), paramValues2, expHeadingSet \cup differ)

\* getParamsToDisplay, else branch: every key some experiment holds a non-object value for
RECURSIVE everyParam(_, _)
everyParam(exps, expHeadingSet) ==
    IF exps = <<>> THEN expHeadingSet
    ELSE
        LET params == Head(exps).params
        IN  everyParam(Tail(exps),
                       expHeadingSet \cup {k \in Keys(params) : params[k].type # TypeObject})

\* func getParamsToDisplay(experiments []*ListExperiment, onlyChangedParams bool) []string
getParamsToDisplay(exps, onlyChangedParams) ==
    IF onlyChangedParams
    THEN StringKeys(changedParams(exps, EmptyMap, {}))
    ELSE StringKeys(everyParam(exps, {}))

\* func getMetricsToDisplay(experiments []*ListExperiment) []string
getMetricsToDisplay(exps) ==
    StringKeys({exps[i].bestCheckpoint.primaryMetric.name :
                    i \in {j \in DOMAIN exps : exps[j].bestCheckpoint # NilCheckpoint}})

\* func upper(in []string) []string
upper(in) == [i \in DOMAIN in |-> UpperOf[in[i]]]

----------------------------------------------------------------------------
\* Rendering.

NoExperimentsFound == <<"No experiments found">>

\* "%s (step %s)" of a checkpoint, "" for a nil one
checkpointCell(cp) ==
    IF cp # NilCheckpoint
    THEN cp.shortID \o " (step " \o Itoa(cp.step) \o ")"
    ELSE ""

\* the metric cells of a checkpoint, one per heading
metricCells(cp, metricsToDisplay) ==
    [i \in DOMAIN metricsToDisplay |->
        IF cp # NilCheckpoint /\ metricsToDisplay[i] \in Keys(cp.metrics)
        THEN ShortString(cp.metrics[metricsToDisplay[i]], valueMaxLength, valueTruncate)
        ELSE ""]

\* outputTable: the header row
tableKeys(paramsToDisplay, metricsToDisplay, hasBestCheckpoint) ==
    <<"EXPERIMENT", "STARTED", "STATUS", "HOST", "USER">>
        \o upper(paramsToDisplay)
        \o <<"LATEST CHECKPOINT">>
        \o upper(metricsToDisplay)
        \o (IF hasBestCheckpoint
            THEN <<"BEST CHECKPOINT">> \o upper(metricsToDisplay)
            ELSE <<>>)

\* outputTable: the cells written for one experiment (its ID has at least 7 characters)
tableRow(exp, paramsToDisplay, metricsToDisplay) ==
    <<SubSeq(exp.id, 1, IDPrefixLen),
      FormatTime(exp.created),
      IF exp.running THEN "running" ELSE "stopped",
      exp.host,
      exp.user>>
        \o [i \in DOMAIN paramsToDisplay |->
               IF paramsToDisplay[i] \in Keys(exp.params)
               THEN ShortString(exp.params[paramsToDisplay[i]], valueMaxLength, valueTruncate)
               ELSE ""]
        \o <<checkpointCell(exp.latestCheckpoint)>>
        \o metricCells(exp.latestCheckpoint, metricsToDisplay)
        \o <<checkpointCell(exp.bestCheckpoint)>>
        \o metricCells(exp.bestCheckpoint, metricsToDisplay)

\* outputTable without the check for an empty list: the header is always written
outputTableNoEmptyCheck(exps, all) ==
    LET paramsToDisplay == getParamsToDisplay(exps, ~all)
        metricsToDisplay == getMetricsToDisplay(exps)
        hasBestCheckpoint == \E i \in DOMAIN exps : exps[i].bestCheckpoint # NilCheckpoint
        keys == tableKeys(paramsToDisplay, metricsToDisplay, hasBestCheckpoint)
    IN  IF \E i \in DOMAIN exps : Len(exps[i].id) < IDPrefixLen
        THEN [out |-> <<>>, err |-> "panic"]
        ELSE [out |-> <<keys>> \o [i \in DOMAIN exps |->
                                     tableRow(exps[i], paramsToDisplay, metricsToDisplay)],
              err |-> "nil"]

\* func outputTable(experiments []*ListExperiment, allParams bool) error
\* The result is [out, err]: the lines that reached os.Stdout and what the call returned.
\* exp.ID[:7] panics on an ID shorter than 7 characters; the tabwriter has then flushed
\* nothing, every line so far holding a tab.
outputTable(exps, all) ==
    IF Len(exps) = 0
    THEN [out |-> <<NoExperimentsFound>>, err |-> "nil"]
    ELSE
        LET paramsToDisplay == getParamsToDisplay(exps, ~all)
            metricsToDisplay == getMetricsToDisplay(exps)
            hasBestCheckpoint == \E i \in DOMAIN exps : exps[i].bestCheckpoint # NilCheckpoint
            keys == tableKeys(paramsToDisplay, metricsToDisplay, hasBestCheckpoint)
        IN  IF \E i \in DOMAIN exps : Len(exps[i].id) < IDPrefixLen
            THEN [out |-> <<>>, err |-> "panic"]
            ELSE [out |-> <<keys>> \o [i \in DOMAIN exps |->
                                         tableRow(exps[i], paramsToDisplay, metricsToDisplay)],
                  err |-> "nil"]

\* func outputQuiet(experiments []*ListExperiment) error
outputQuiet(exps) ==
    [out |-> [i \in DOMAIN exps |-> <<exps[i].id>>], err |-> "nil"]

\* func outputJSON(experiments []*ListExperiment) error
\* One document: the records in order, each with its fields in declaration order and
\* without Config.  A record is rendered here by its id, its status and its number of
\* checkpoints.
outputJSON(exps) ==
    [out |-> <<<<"[">> \o [i \in DOMAIN exps |->
                            exps[i].id \o ":" \o (IF exps[i].running THEN "running" ELSE "stopped")
                                \o ":" \o Itoa(exps[i].numCheckpoints)]
                     \o <<"]">>>>,
     err |-> "nil"]

----------------------------------------------------------------------------
\* The listing pipeline: Experiments and createListExperiments.

\* the loss metric of a checkpoint
LossMetrics(n) == [loss |-> FloatValue(n)]

\* a checkpoint at step 5 that carries the primary metric loss
LossCheckpoint == Checkpoint("c5aaaaa", 5, LossMetrics(3), [name |-> "loss"])

\* What varies between the experiments of the storage: <<created, checkpoint, filter>>.
\* filter is what filters.Matches answers for the record built from the experiment:
\* "match", "nomatch" or "error".  Of an experiment that does not reach the list only
\* the filter's answer matters.
StoredKinds ==
    {<<c, cp, "match">> : c \in CreatedTimes, cp \in {NilCheckpoint, LossCheckpoint}}
        \cup {<<1, NilCheckpoint, "nomatch">>, <<1, NilCheckpoint, "error">>}

\* the experiment of kind k the storage holds at index i
StoredExperiment(i, k) ==
    [id |-> "abcdef" \o Itoa(i) \o "234567",
     created |-> k[1],
     params |-> [lr |-> FloatValue(i)],
     command |-> "train.py",
     host |-> "10.1.1.1",
     user |-> "andreas",
     numCheckpoints |-> IF k[2] = NilCheckpoint THEN 0 ELSE 1,
     latestCheckpoint |-> k[2],
     bestCheckpoint |-> k[2],
     filter |-> k[3]]

\* the sorters of the model: by start time ascending, by step descending
Sorters == {[key |-> "started", desc |-> FALSE], [key |-> "step", desc |-> TRUE]}

\* sorter.LessThan(a, b): compares the values GetValue resolves for the sorter's key
LessThan(s, a, b) ==
    IF s.desc
    THEN GetValue(a, s.key).v > GetValue(b, s.key).v
    ELSE GetValue(a, s.key).v < GetValue(b, s.key).v

\* ret[i].Created.Before(ret[j].Created)
CreatedBefore(a, b) == a.created < b.created

\* sort.Slice(s, less), less given as a function on pairs of elements of s: some
\* arrangement of s that less orders; the sort is not stable, so elements less ranks as
\* equal come in any order
SortSlice(s, less) ==
    {p \in Perms(s) : \A i, j \in 1..Len(p) : i < j => ~less[p[j], p[i]]}

\* the ListExperiment createListExperiments builds from an experiment
ListExperimentOf(exp, running) ==
    [id |-> exp.id,
     created |-> exp.created,
     params |-> exp.params,
     command |-> exp.command,
     numCheckpoints |-> exp.numCheckpoints,
     latestCheckpoint |-> exp.latestCheckpoint,
     bestCheckpoint |-> exp.bestCheckpoint,
     user |-> exp.user,
     host |-> exp.host,
     running |-> running]

IDs(exps) == [i \in DOMAIN exps |-> exps[i].id]

NoOrder == <<"none">>
NoCols == <<"none">>
NoValue == [type |-> "unset"]

\* the variables only the specifications of GetValue and getParamsToDisplay use
Unused == name = "" /\ val = NoValue /\ cols = NoCols /\ prevCols = NoCols

Init ==
    /\ \E n \in 0..MaxExps : \E k \in [1..n -> StoredKinds] :
           stored = [i \in 1..n |-> StoredExperiment(i, k[i])]
    /\ format \in {FormatJSON, FormatTable, FormatQuiet}
    /\ allParams \in BOOLEAN
    /\ sorter \in Sorters
    /\ pc = "start"
    /\ experiments = <<>>
    /\ idx = 0
    /\ ret = <<>>
    /\ stdout = <<>>
    /\ err = "none"
    /\ ran = {}
    /\ prev = NoOrder
    /\ Unused

Inputs == <<stored, format, allParams, sorter>>
Checked == <<name, val, cols, prevCols>>

\* createListExperiments: proj.Experiments() succeeds; the storage returns the
\* experiments in any order
Fetch ==
    /\ pc = "start"
    /\ experiments' \in Perms(stored)
    /\ idx' = 1
    /\ ret' = <<>>
    /\ ran' = {"fetch"}
    /\ pc' = "build"
    /\ UNCHANGED <<Inputs, stdout, err, prev, Checked>>

\* createListExperiments: proj.Experiments() fails; Experiments returns the error
FetchError ==
    /\ pc = "start"
    /\ err' = "fetch failed"
    /\ ran' = {"fetch"}
    /\ pc' = "done"
    /\ UNCHANGED <<Inputs, experiments, idx, ret, stdout, prev, Checked>>

\* createListExperiments, loop body: proj.ExperimentIsRunning fails
RunningError ==
    /\ pc = "build" /\ idx <= Len(experiments)
    /\ err' = "run-state failed"
    /\ ret' = <<>>
    /\ pc' = "done"
    /\ UNCHANGED <<Inputs, experiments, idx, stdout, ran, prev, Checked>>

\* FilterError without the return: the error is kept and the loop goes on
FilterErrorContinues ==
    /\ pc = "build" /\ idx <= Len(experiments)
    /\ experiments[idx].filter = "error"
    /\ err' = "filter failed"
    /\ idx' = idx + 1
    /\ UNCHANGED <<Inputs, experiments, ret, pc, stdout, ran, prev, Checked>>

\* createListExperiments, loop body: filters.Matches fails
FilterError ==
    /\ pc = "build" /\ idx <= Len(experiments)
    /\ experiments[idx].filter = "error"
    /\ err' = "filter failed"
    /\ ret' = <<>>
    /\ pc' = "done"
    /\ UNCHANGED <<Inputs, experiments, idx, stdout, ran, prev, Checked>>

\* createListExperiments, loop body: the record does not match and is dropped
FilterDrop ==
    /\ pc = "build" /\ idx <= Len(experiments)
    /\ experiments[idx].filter = "nomatch"
    /\ idx' = idx + 1
    /\ UNCHANGED <<Inputs, experiments, ret, pc, stdout, err, ran, prev, Checked>>

\* createListExperiments, loop body: the record matches and is appended
FilterKeep ==
    /\ pc = "build" /\ idx <= Len(experiments)
    /\ experiments[idx].filter = "match"
    /\ \E running \in BOOLEAN :
           ret' = Append(ret, ListExperimentOf(experiments[idx], running))
    /\ idx' = idx + 1
    /\ UNCHANGED <<Inputs, experiments, pc, stdout, err, ran, prev, Checked>>

\* createListExperiments, after the loop: sort by Created and return
CreateReturn ==
    /\ pc = "build" /\ idx > Len(experiments)
    /\ ret' \in SortSlice(ret, [a, b \in Range(ret) |-> CreatedBefore(a, b)])
    /\ ran' = ran \cup {"build"}
    /\ pc' = "sort"
    /\ UNCHANGED <<Inputs, experiments, idx, stdout, err, prev, Checked>>

\* Experiments: sort.Slice by sorter.LessThan
SortBySorter ==
    /\ pc = "sort"
    /\ ret' \in SortSlice(ret, [a, b \in Range(ret) |-> LessThan(sorter, a, b)])
    /\ ran' = ran \cup {"sort"}
    /\ pc' = "render"
    /\ UNCHANGED <<Inputs, experiments, idx, stdout, err, prev, Checked>>

\* what a renderer's result does to the state
Rendered(r) ==
    /\ stdout' = stdout \o r.out
    /\ err' = r.err
    /\ ran' = ran \cup {"render"}
    /\ pc' = "done"
    /\ UNCHANGED <<Inputs, experiments, idx, ret, prev, Checked>>

\* Experiments: case FormatJSON
RenderJSON == pc = "render" /\ format = FormatJSON /\ Rendered(outputJSON(ret))

\* Experiments: case FormatTable
RenderTable == pc = "render" /\ format = FormatTable /\ Rendered(outputTable(ret, allParams))

\* Experiments: case FormatQuiet
RenderQuiet == pc = "render" /\ format = FormatQuiet /\ Rendered(outputQuiet(ret))

\* the listing is invoked again on the unchanged data set, with the same arguments
Reinvoke ==
    /\ pc = "done"
    /\ prev' = IF err = "nil" THEN IDs(ret) ELSE prev
    /\ pc' = "start"
    /\ experiments' = <<>>
    /\ idx' = 0
    /\ ret' = <<>>
    /\ stdout' = <<>>
    /\ err' = "none"
    /\ ran' = {}
    /\ UNCHANGED <<Inputs, Checked>>

Next ==
    \/ Fetch
    \/ FetchError
    \/ RunningError
    \/ FilterError
    \/ FilterDrop
    \/ FilterKeep
    \/ CreateReturn
    \/ SortBySorter
    \/ RenderJSON
    \/ RenderTable
    \/ RenderQuiet

Spec == Init /\ [][Next]_vars

\* the listing invoked any number of times
NextRepeated == Next \/ Reinvoke

SpecRepeated == Init /\ [][NextRepeated]_vars

----------------------------------------------------------------------------
\* outputTable on its own: any record sequence, any allParams.

\* the largest number of records handed to outputTable, getParamsToDisplay
MaxRecords == 3

\* a long object value
ConfigObject == ObjectValue("{layers: [64, 64, 10], dropout: 1}")

\* a best checkpoint at step 3 whose primary metric is acc
AccCheckpoint == Checkpoint("c3bbbbb", 3, [acc |-> FloatValue(9), loss |-> FloatValue(4)], [name |-> "acc"])

\* (latest, best) of a record: no checkpoint, no best checkpoint, the same, two
CheckpointPairs ==
    {<<NilCheckpoint, NilCheckpoint>>, <<LossCheckpoint, NilCheckpoint>>,
     <<LossCheckpoint, LossCheckpoint>>, <<LossCheckpoint, AccCheckpoint>>}

ListExperimentWith(id, created, params, cps, running) ==
    [id |-> id,
     created |-> created,
     params |-> params,
     command |-> "train.py",
     numCheckpoints |-> IF cps[1] = NilCheckpoint THEN 0 ELSE IF cps[1] = cps[2] THEN 1 ELSE 2,
     latestCheckpoint |-> cps[1],
     bestCheckpoint |-> cps[2],
     user |-> "andreas",
     host |-> "10.1.1.1",
     running |-> running]

\* what varies between the records handed to outputTable: <<id length, params, checkpoints>>
TableKinds ==
    {<<l, params, cps>> :
        l \in {"short", "prefix", "long"},
        params \in {[lr |-> FloatValue(1)], [lr |-> FloatValue(2), cfg |-> ConfigObject]},
        cps \in CheckpointPairs}

\* the ID of the record at index i: shorter than the prefix, as long, longer
IDAt(i, l) ==
    IF l = "short" THEN "ab" \o Itoa(i)
    ELSE IF l = "prefix" THEN "abcdef" \o Itoa(i)
    ELSE "abcdef" \o Itoa(i) \o "234567"

InitTable ==
    /\ \E n \in 0..MaxRecords : \E k \in [1..n -> TableKinds] :
           ret = [i \in 1..n |->
                     ListExperimentWith(IDAt(i, k[i][1]), i, k[i][2], k[i][3], i = 1)]
    /\ allParams \in BOOLEAN
    /\ format = FormatTable
    /\ pc = "render"
    /\ stored = <<>>
    /\ sorter = [key |-> "started", desc |-> FALSE]
    /\ experiments = <<>>
    /\ idx = 0
    /\ stdout = <<>>
    /\ err = "none"
    /\ ran = {}
    /\ prev = NoOrder
    /\ Unused

NextTable == RenderTable

SpecTable == InitTable /\ [][NextTable]_vars

----------------------------------------------------------------------------
\* getParamsToDisplay on its own: any record sequence, either mode, and the same
\* records in another order.

\* the values a record may hold for lr: two floats, a string, an object
LrValues == {FloatValue(1), FloatValue(2), StringValue("high"), ConfigObject}

\* the values a record may hold for cfg
CfgValues == {ConfigObject, StringValue("base")}

\* the params maps over lr and cfg, either key present or not
ParamMaps ==
    {[k \in ks |-> IF k = "lr" THEN l ELSE c] :
        ks \in SUBSET {"lr", "cfg"}, l \in LrValues, c \in CfgValues}

InitParams ==
    /\ \E n \in 0..MaxRecords : \E params \in [1..n -> ParamMaps] :
           ret = [i \in 1..n |->
                     ListExperimentWith(IDAt(i, "long"), i, params[i],
                                        <<NilCheckpoint, NilCheckpoint>>, FALSE)]
    /\ allParams \in BOOLEAN
    /\ format = FormatTable
    /\ pc = "select"
    /\ stored = <<>>
    /\ sorter = [key |-> "started", desc |-> FALSE]
    /\ experiments = <<>>
    /\ idx = 0
    /\ stdout = <<>>
    /\ err = "none"
    /\ ran = {}
    /\ prev = NoOrder
    /\ Unused

\* outputTable's call: paramsToDisplay := getParamsToDisplay(experiments, !allParams)
SelectParams ==
    /\ pc = "select"
    /\ cols' = getParamsToDisplay(ret, ~allParams)
    /\ pc' = "selected"
    /\ UNCHANGED <<Inputs, experiments, idx, ret, stdout, err, ran, prev, name, val, prevCols>>

\* the same records reach getParamsToDisplay in another order
Permute ==
    /\ pc = "selected" /\ prevCols = NoCols
    /\ ret' \in Perms(ret) \ {ret}
    /\ prevCols' = cols
    /\ cols' = NoCols
    /\ pc' = "select"
    /\ UNCHANGED <<Inputs, experiments, idx, stdout, err, ran, prev, name, val>>

NextParams == SelectParams

SpecParams == InitParams /\ [][NextParams]_vars

NextPermuted == SelectParams \/ Permute

SpecPermuted == InitParams /\ [][NextPermuted]_vars

----------------------------------------------------------------------------
\* GetValue on its own: any record, any name.

\* best checkpoints whose metrics share names with virtual fields and with params
ShadowCheckpoint ==
    Checkpoint("c7ccccc", 7, [lr |-> FloatValue(8), status |-> StringValue("metric")],
               [name |-> "lr"])

ValueParamMaps ==
    {[lr |-> FloatValue(1)],
     [lr |-> FloatValue(2), status |-> StringValue("param"), step |-> IntValue(99)],
     [loss |-> FloatValue(6), user |-> StringValue("param"), started |-> IntValue(0)],
     [cfg |-> ConfigObject, host |-> StringValue("param"), command |-> StringValue("param")]}

ValueRecords ==
    {ListExperimentWith("abcdef1234567", c, params, cps, running) :
        c \in CreatedTimes,
        params \in ValueParamMaps,
        cps \in CheckpointPairs \cup {<<LossCheckpoint, ShadowCheckpoint>>},
        running \in BOOLEAN}

InitValue ==
    /\ ret \in {<<e>> : e \in ValueRecords}
    /\ name \in Names
    /\ val = NoValue
    /\ pc = "resolve"
    /\ cols = NoCols
    /\ prevCols = NoCols
    /\ allParams = FALSE
    /\ format = FormatTable
    /\ stored = <<>>
    /\ sorter = [key |-> "started", desc |-> FALSE]
    /\ experiments = <<>>
    /\ idx = 0
    /\ stdout = <<>>
    /\ err = "none"
    /\ ran = {}
    /\ prev = NoOrder

\* a filter or a sorter resolves a field of the record
Resolve ==
    /\ pc = "resolve"
    /\ val' = GetValue(ret[1], name)
    /\ pc' = "resolved"
    /\ UNCHANGED <<Inputs, experiments, idx, ret, stdout, err, ran, prev, name, cols, prevCols>>

NextValue == Resolve

SpecValue == InitValue /\ [][NextValue]_vars

----------------------------------------------------------------------------
\* Properties.

\* the errors createListExperiments returns
Failures == {"fetch failed", "run-state failed", "filter failed"}

\* the table was rendered for a non-empty record sequence
TableDone == pc = "done" /\ format = FormatTable /\ Len(ret) > 0

SomeBestCheckpoint == \E i \in DOMAIN ret : ret[i].bestCheckpoint # NilCheckpoint

\* the number of cells up to and including the latest checkpoint's metrics
LatestWidth ==
    5 + Len(getParamsToDisplay(ret, ~allParams)) + 1 + Len(getMetricsToDisplay(ret))

\* C1: for every non-empty record set and either allParams value, the header row has as
\* many cells as were written for every record row.
C1_HeaderAndRowsSameWidth ==
    (TableDone /\ err = "nil") =>
        \A i \in 2..Len(stdout) : Len(stdout[i]) = Len(stdout[1])

\* C2: the best-checkpoint block is in the header, and in every row, if and only if some
\* record has a best checkpoint; with none, neither the header nor a row holds it.
C2_BestBlockIffSomeBest ==
    (TableDone /\ err = "nil") =>
        /\ (\E j \in DOMAIN stdout[1] : stdout[1][j] = "BEST CHECKPOINT") <=> SomeBestCheckpoint
        /\ \A i \in 2..Len(stdout) : (Len(stdout[i]) > LatestWidth) <=> SomeBestCheckpoint

\* C3: in changed-only mode the selected parameter keys are the same for every order of
\* the same records.
C3_ChangedOnlyOrderIndependent ==
    (pc = "selected" /\ ~allParams /\ prevCols # NoCols) => cols = prevCols

\* some record holds an object for key k
HoldsObject(k) ==
    \E i \in DOMAIN ret : k \in Keys(ret[i].params) /\ ret[i].params[k].type = TypeObject

\* C4: a key that holds an object in some record is never a selected column, in either
\* mode, whatever the other records hold for it.
C4_ObjectKeyNeverSelected ==
    pc = "selected" => \A i \in DOMAIN cols : ~HoldsObject(cols[i])

\* the records that hold a non-object value for key k
Holders(k) ==
    {i \in DOMAIN ret : k \in Keys(ret[i].params) /\ ret[i].params[k].type # TypeObject}

\* every two non-object values of one key can be compared
AllComparable ==
    \A k \in Names : \A i, j \in Holders(k) :
        ~NotEqual(ret[i].params[k], ret[j].params[k]).err

\* C5: in changed-only mode, all values comparable, a key is selected if and only if two
\* records hold unequal non-object values for it.
C5_ChangedOnlySelectsDiffering ==
    (pc = "selected" /\ ~allParams /\ AllComparable) =>
        \A k \in Names :
            (k \in Range(cols)) <=>
                (\E i, j \in Holders(k) : ret[i].params[k] # ret[j].params[k])

\* C5's case: lr = 1, 1, 2 selects lr
C5_Witness ==
    /\ pc = "selected" /\ ~allParams /\ AllComparable
    /\ Len(ret) = 3
    /\ \A i \in 1..3 : Keys(ret[i].params) = {"lr"}
    /\ ret[1].params.lr = FloatValue(1)
    /\ ret[2].params.lr = FloatValue(1)
    /\ ret[3].params.lr = FloatValue(2)
    /\ cols = <<"lr">>

\* C6: GetValue resolves a virtual field first, then a metric of the best checkpoint,
\* then a param, then nothing.
C6_GetValuePrecedence ==
    pc = "resolved" =>
        LET exp == ret[1]
            virtual ==
                [started |-> FloatValue(exp.created),
                 step |-> IntValue(IF exp.latestCheckpoint = NilCheckpoint
                                   THEN 0 ELSE exp.latestCheckpoint.step),
                 user |-> StringValue(exp.user),
                 host |-> StringValue(exp.host),
                 command |-> StringValue(exp.command),
                 status |-> StringValue(IF exp.running THEN "running" ELSE "stopped")]
            isMetric ==
                /\ exp.bestCheckpoint # NilCheckpoint
                /\ name \in DOMAIN exp.bestCheckpoint.metrics
        IN  /\ name \in DOMAIN virtual => val = virtual[name]
            /\ (name \notin DOMAIN virtual /\ isMetric) => val = exp.bestCheckpoint.metrics[name]
            /\ (name \notin DOMAIN virtual /\ ~isMetric /\ name \in DOMAIN exp.params)
                   => val = exp.params[name]
            /\ (name \notin DOMAIN virtual /\ ~isMetric /\ name \notin DOMAIN exp.params)
                   => val = NilValue

\* C6's case: a param and a metric named status are both shadowed by the virtual field
C6_Witness ==
    /\ pc = "resolved" /\ name = "status"
    /\ "status" \in DOMAIN ret[1].params
    /\ ret[1].bestCheckpoint # NilCheckpoint
    /\ "status" \in DOMAIN ret[1].bestCheckpoint.metrics
    /\ val = StringValue("running")

\* C7: when the fetch, a run-state query or a filter evaluation fails, Experiments
\* returns that error at once: no further experiment is processed, neither sort nor
\* render runs, and nothing is written, whatever the format.
C7_FailureAbortsWithoutOutput ==
    /\ err \in Failures =>
           /\ pc = "done"
           /\ stdout = <<>>
           /\ ret = <<>>
           /\ ran = {"fetch"}
           /\ err = "fetch failed" => (experiments = <<>> /\ idx = 0)
           /\ err # "fetch failed" => idx \in 1..Len(experiments)
    /\ \A i \in DOMAIN experiments :
           experiments[i].filter = "error" =>
               /\ idx <= i
               /\ ran = {"fetch"}
               /\ stdout = <<>>
               /\ err \in {"none", "run-state failed", "filter failed"}

\* C7's case: the filter fails on the second experiment, after the first was kept
C7_Witness ==
    /\ err = "filter failed" /\ pc = "done"
    /\ idx = 2
    /\ experiments[1].filter = "match"
    /\ format = FormatTable

\* the comparator ranks a and b as equal
RankedEqual(a, b) == ~LessThan(sorter, a, b) /\ ~LessThan(sorter, b, a)

\* C8: on an unchanged data set with the same comparator the final record order is the
\* same whatever the retrieval order, and records the comparator ranks as equal come in
\* ascending creation-time order.
C8_OrderIndependentOfRetrieval ==
    (pc = "done" /\ err = "nil") =>
        /\ prev # NoOrder => IDs(ret) = prev
        /\ \A i, j \in DOMAIN ret :
               (i < j /\ RankedEqual(ret[i], ret[j])) => ret[i].created <= ret[j].created

\* C9: on an empty filtered set the quiet format writes nothing, the table format writes
\* only the no-records notice, and both return success.
C9_EmptySetOutput ==
    (pc = "done" /\ "render" \in ran /\ Len(ret) = 0) =>
        /\ format = FormatQuiet => (stdout = <<>> /\ err = "nil")
        /\ format = FormatTable => (stdout = <<NoExperimentsFound>> /\ err = "nil")

\* C9's case: every stored experiment was filtered out and the table format rendered
C9_Witness ==
    /\ pc = "done" /\ "render" \in ran
    /\ Len(stored) > 0 /\ Len(ret) = 0
    /\ format = FormatTable
    /\ stdout = <<NoExperimentsFound>>

\* C10: whatever the length of a record's ID, the table renders without a panic and the
\* row's first cell is the ID's prefix of at most 7 characters.
C10_ShortIDsRender ==
    TableDone =>
        /\ err = "nil"
        /\ \A i \in DOMAIN ret :
               stdout[i + 1][1] = SubSeq(ret[i].id, 1, Min(IDPrefixLen, Len(ret[i].id)))

====
